---- MODULE Spec2Model ----
(***************************************************************************)
(* The Flask gateway of src/app.py: five routes that forward requests to   *)
(* one upstream API (API_URL) and upload images to an S3 bucket.           *)
(*                                                                         *)
(* A request occupies a slot r.  A handler is cut at its outbound calls:   *)
(* one action issues the call, receives its outcome (an exception, or a    *)
(* response with a status code and a body text) and runs the handler's     *)
(* code up to its next outbound call or its return.  The upstream API and  *)
(* the object store are the environment: their outcomes are chosen freely. *)
(***************************************************************************)
EXTENDS Integers, Sequences, FiniteSets, TLC

\* Request slots of the sequential specification (Spec).
NumReqs == 1
\* Request slots of the concurrent create specification (SpecConc).
NumConc == 2

\* ------------------------------------------------------------------ config
S3_BUCKET == "bucket"
AWS_REGION == "eu-west-1"

\* ------------------------------------------------------- the environment
\* Status codes an upstream response may carry.
Statuses == {200, 201, 204, 404, 409}
\* Body texts an upstream response may carry: two JSON documents, and one
\* text that is not JSON.
UpBodies == {"[]", "{\"id\": 1}", "<html>"}
\* What one outbound HTTP call yields: the call raises (connection error,
\* timeout), or a response comes back.
Raised == [raised |-> TRUE, status |-> 0, body |-> ""]
Outcomes == {Raised} \cup [raised : {FALSE}, status : Statuses, body : UpBodies]
NoResponse == [raised |-> FALSE, status |-> 0, body |-> ""]

\* ----------------------------------------------------------- the inputs
Handlers == {"index", "add_user", "get_user", "update_user", "delete_user"}
Emails == {"a@x.com", "b@x.com"}
\* The "image" part of the multipart form: not sent at all, sent with no
\* file chosen (empty filename), or sent with a file.
Files == {"absent", "empty", "file"}
Filename == "me.png"

\* ------------------------------------------------------------------- JSON
\* response.json(): the value a body text parses to; raises on other texts.
IsJson(text) == text \in {"[]", "{\"id\": 1}"}
json(text) == IF text = "[]" THEN "list()" ELSE "dict(id=1)"
\* A dict with one key, as the handlers build for their messages.
Dict(k, v) == "dict(" \o k \o "=" \o v \o ")"

\* ------------------------------------------------------------- replies
\* What the gateway answers: a status, the kind of body and its content.
NoReply == [status |-> 0, kind |-> "none", data |-> ""]
\* jsonify(value), status: a JSON reply carrying the value.
jsonify(value, status) == [status |-> status, kind |-> "json", data |-> value]
\* render_template("index.html", users=...): the page, status 200.
render_template(users) == [status |-> 200, kind |-> "html", data |-> users]
\* redirect(url_for("index")): status 302 to "/".
redirect_index == [status |-> 302, kind |-> "redirect", data |-> "/"]
\* An exception that leaves the handler: the framework answers, with 400
\* for a BadRequest (a missing form key, a request body that is not JSON)
\* and 500 for anything else.
framework_error(e) ==
    [status |-> IF e \in {"BadRequestKeyError", "BadRequest"} THEN 400 ELSE 500,
     kind |-> "exception", data |-> e]

\* What a handler's code yields from one outcome: the reply, the exception
\* that escaped (or ""), and whether response.json() was called.
Ret(reply, exc, read) == [reply |-> reply, exc |-> exc, read |-> read]

VARIABLES
    pc,         \* pc[r]: where request r is in its handler
    handler,    \* handler[r]: the route that serves r
    input_ok,   \* input_ok[r]: the form fields (the JSON body) are all there
    email,      \* email[r]: the form's email
    file,       \* file[r]: the form's image part
    calls,      \* calls[r]: the outbound calls r issued, with their outcomes
    response,   \* response[r]: the upstream response a forwarding handler holds
    image_url,  \* image_url[r]: add_user's local image_url
    user_data,  \* user_data[r]: the JSON body add_user POSTs upstream
    reply,      \* reply[r]: what the gateway answered
    exc,        \* exc[r]: the exception that escaped r's handler, or ""
    body_read,  \* body_read[r]: response.json() was called
    s3          \* the keys stored in the bucket

vars == <<pc, handler, input_ok, email, file, calls, response, image_url,
          user_data, reply, exc, body_read, s3>>

Reqs == DOMAIN pc
Unset == "unset"
NoData == [email |-> "", image_url |-> Unset]

InitFor(R) ==
    /\ pc = [r \in R |-> "idle"]
    /\ handler = [r \in R |-> "none"]
    /\ input_ok = [r \in R |-> TRUE]
    /\ email = [r \in R |-> ""]
    /\ file = [r \in R |-> "absent"]
    /\ calls = [r \in R |-> <<>>]
    /\ response = [r \in R |-> NoResponse]
    /\ image_url = [r \in R |-> Unset]
    /\ user_data = [r \in R |-> NoData]
    /\ reply = [r \in R |-> NoReply]
    /\ exc = [r \in R |-> ""]
    /\ body_read = [r \in R |-> FALSE]
    /\ s3 = {}

Init == InitFor(1 .. NumReqs)

\* One entry of calls[r].
Call(name, o) == [call |-> name, raised |-> o.raised, status |-> o.status]

\* The handler returns (or an exception leaves it).
Return(r, ret) ==
    /\ pc' = [pc EXCEPT ![r] = "done"]
    /\ reply' = [reply EXCEPT ![r] = ret.reply]
    /\ exc' = [exc EXCEPT ![r] = ret.exc]
    /\ body_read' = [body_read EXCEPT ![r] = ret.read]

\* A request arrives at a route.
Request(r, h, ok, e, f) ==
    /\ pc[r] = "idle"
    /\ pc' = [pc EXCEPT ![r] = h]
    /\ handler' = [handler EXCEPT ![r] = h]
    /\ input_ok' = [input_ok EXCEPT ![r] = ok]
    /\ email' = [email EXCEPT ![r] = e]
    /\ file' = [file EXCEPT ![r] = f]
    /\ UNCHANGED <<calls, response, image_url, user_data, reply, exc,
                   body_read, s3>>

Arrive(r) ==
    \E h \in Handlers, ok \in BOOLEAN :
        IF h = "add_user"
        THEN \E e \in Emails, f \in Files : Request(r, h, ok, e, f)
        ELSE Request(r, h, IF h = "update_user" THEN ok ELSE TRUE, "", "absent")

\* r issues one outbound call and receives outcome o.
Issue(r, name, o) == calls' = [calls EXCEPT ![r] = Append(@, Call(name, o))]

\* ------------------------------------------------------------------ index
\* A variant whose parse of the body is outside the try block.
index_result_parse_uncaught(o) ==
    IF o.raised THEN Ret(render_template("list()"), "", FALSE)
    ELSE IF ~IsJson(o.body)
    THEN Ret(framework_error("JSONDecodeError"), "JSONDecodeError", TRUE)
    ELSE Ret(render_template(json(o.body)), "", TRUE)

\* GET /: the page is rendered with the users the upstream lists, or with
\* an empty list when the call or the parse raises.
index_result(o) ==
    IF o.raised THEN Ret(render_template("list()"), "", FALSE)
    ELSE IF ~IsJson(o.body) THEN Ret(render_template("list()"), "", TRUE)
    ELSE Ret(render_template(json(o.body)), "", TRUE)

index(r) ==
    /\ pc[r] = "index"
    /\ \E o \in Outcomes :
        /\ Issue(r, "list", o)
        /\ response' = [response EXCEPT ![r] = o]
        /\ Return(r, index_result(o))
    /\ UNCHANGED <<handler, input_ok, email, file, image_url, user_data, s3>>

\* --------------------------------------------------------------- get_user
\* GET /users/<id>: the call and the parse share one try block.
get_user_result(o) ==
    IF o.raised THEN Ret(jsonify(Dict("error", "API unreachable"), 500), "", FALSE)
    ELSE IF ~IsJson(o.body)
    THEN Ret(jsonify(Dict("error", "API unreachable"), 500), "", TRUE)
    ELSE Ret(jsonify(json(o.body), o.status), "", TRUE)

get_user(r) ==
    /\ pc[r] = "get_user"
    /\ \E o \in Outcomes :
        /\ Issue(r, "get", o)
        /\ response' = [response EXCEPT ![r] = o]
        /\ Return(r, get_user_result(o))
    /\ UNCHANGED <<handler, input_ok, email, file, image_url, user_data, s3>>

\* ------------------------------------------------------------ update_user
\* A variant that takes every 2xx status for success.
update_user_result_any_2xx(o) ==
    IF o.raised THEN Ret(jsonify(Dict("error", "API unreachable"), 500), "", FALSE)
    ELSE IF o.status < 300
    THEN IF IsJson(o.body)
         THEN Ret(jsonify("dict(message=User updated, data=" \o json(o.body) \o ")",
                          200), "", TRUE)
         ELSE Ret(framework_error("JSONDecodeError"), "JSONDecodeError", TRUE)
    ELSE Ret(jsonify(Dict("error", "Failed to update user"), o.status), "", FALSE)

\* PUT|PATCH /users/<id>: only the call is in the try block; the parse of
\* a 200 response's body is outside it.
update_user_result(o) ==
    IF o.raised THEN Ret(jsonify(Dict("error", "API unreachable"), 500), "", FALSE)
    ELSE IF o.status = 200
    THEN IF IsJson(o.body)
         THEN Ret(jsonify("dict(message=User updated, data=" \o json(o.body) \o ")",
                          200), "", TRUE)
         ELSE Ret(framework_error("JSONDecodeError"), "JSONDecodeError", TRUE)
    ELSE Ret(jsonify(Dict("error", "Failed to update user"), o.status), "", FALSE)

update_user(r) ==
    /\ pc[r] = "update_user"
    /\ IF ~input_ok[r]
       THEN \* data = request.json raises
            /\ Return(r, Ret(framework_error("BadRequest"), "BadRequest", FALSE))
            /\ UNCHANGED <<calls, response>>
       ELSE \E o \in Outcomes :
            /\ Issue(r, "put", o)
            /\ response' = [response EXCEPT ![r] = o]
            /\ Return(r, update_user_result(o))
    /\ UNCHANGED <<handler, input_ok, email, file, image_url, user_data, s3>>

\* ------------------------------------------------------------ delete_user
\* A variant that parses the body before it looks at the status.
delete_user_result_parse_first(o) ==
    IF o.raised THEN Ret(jsonify(Dict("error", "API unreachable"), 500), "", FALSE)
    ELSE IF ~IsJson(o.body)
    THEN Ret(jsonify(Dict("error", "Unexpected empty response"), o.status), "", TRUE)
    ELSE IF o.status = 204
    THEN Ret(jsonify(Dict("message", "User deleted successfully"), 200), "", TRUE)
    ELSE Ret(jsonify(json(o.body), o.status), "", TRUE)

\* DELETE /users/<id>/delete: 204 is answered before the body is looked at.
delete_user_result(o) ==
    IF o.raised THEN Ret(jsonify(Dict("error", "API unreachable"), 500), "", FALSE)
    ELSE IF o.status = 204
    THEN Ret(jsonify(Dict("message", "User deleted successfully"), 200), "", FALSE)
    ELSE IF IsJson(o.body) THEN Ret(jsonify(json(o.body), o.status), "", TRUE)
    ELSE Ret(jsonify(Dict("error", "Unexpected empty response"), o.status), "", TRUE)

delete_user(r) ==
    /\ pc[r] = "delete_user"
    /\ \E o \in Outcomes :
        /\ Issue(r, "delete", o)
        /\ response' = [response EXCEPT ![r] = o]
        /\ Return(r, delete_user_result(o))
    /\ UNCHANGED <<handler, input_ok, email, file, image_url, user_data, s3>>

\* --------------------------------------------------------------- add_user
\* POST /users.  Step 0 reads the form, step 1 is the email pre-check,
\* step 2 the upload, step 3 the create POST.
\* request.form[...] and request.files["image"] raise on a missing key.
form_readable(ok, f) == ok /\ f # "absent"
\* "if image:" - a file part with an empty filename is falsy.
image_truthy(f) == f = "file"
image_filename == "users/" \o Filename
uploaded_url ==
    "https://" \o S3_BUCKET \o ".s3-" \o AWS_REGION \o ".amazonaws.com/"
        \o image_filename

\* A variant that serializes creates per email: the pre-check waits while
\* another request for the same email is between its pre-check and its POST.
may_check_locked(r) ==
    /\ pc[r] = "add_user"
    /\ \A q \in Reqs \ {r} :
        ~(email[q] = email[r] /\ pc[q] \in {"add_user_upload", "add_user_post"})

\* What lets a create request start its pre-check: being at the handler's
\* start.  No lock is taken and no other request is looked at.
may_check(r) == pc[r] = "add_user"

\* A variant that does not look at the pre-check's status.
check_next_ignores_409(o, f) ==
    IF o.raised
    THEN [pc |-> "done",
          reply |-> jsonify(Dict("error", "API Gateway unreachable"), 500)]
    ELSE IF image_truthy(f) THEN [pc |-> "add_user_upload", reply |-> NoReply]
    ELSE [pc |-> "add_user_post", reply |-> NoReply]

\* After the pre-check: where the handler goes ("done" with a reply, or on
\* to the upload or the POST).
check_next(o, f) ==
    IF o.raised
    THEN [pc |-> "done",
          reply |-> jsonify(Dict("error", "API Gateway unreachable"), 500)]
    ELSE IF o.status = 409
    THEN [pc |-> "done", reply |-> jsonify(Dict("error", "Email already exists"), 409)]
    ELSE IF image_truthy(f) THEN [pc |-> "add_user_upload", reply |-> NoReply]
    ELSE [pc |-> "add_user_post", reply |-> NoReply]

add_user_check(r) ==
    /\ may_check(r)
    /\ IF ~form_readable(input_ok[r], file[r])
       THEN /\ Return(r, Ret(framework_error("BadRequestKeyError"),
                             "BadRequestKeyError", FALSE))
            /\ UNCHANGED <<calls, image_url>>
       ELSE \E o \in Outcomes :
            LET n == check_next(o, file[r]) IN
            /\ Issue(r, "check", o)
            /\ pc' = [pc EXCEPT ![r] = n.pc]
            /\ reply' = [reply EXCEPT ![r] = n.reply]
            /\ image_url' = [image_url EXCEPT ![r] = IF n.pc = "done" THEN @ ELSE ""]
            /\ UNCHANGED <<exc, body_read>>
    /\ UNCHANGED <<handler, input_ok, email, file, response, user_data, s3>>

\* A variant that logs a failed upload and goes on to the POST.
upload_next_falls_through(uploaded) == [pc |-> "add_user_post", reply |-> NoReply]

\* After the upload: uploaded is whether upload_fileobj returned.
upload_next(uploaded) ==
    IF uploaded THEN [pc |-> "add_user_post", reply |-> NoReply]
    ELSE [pc |-> "done", reply |-> jsonify(Dict("error", "S3Error"), 500)]

add_user_upload(r) ==
    /\ pc[r] = "add_user_upload"
    /\ \E uploaded \in BOOLEAN :
        LET n == upload_next(uploaded) IN
        /\ Issue(r, "upload", [raised |-> ~uploaded, status |-> 0])
        /\ s3' = IF uploaded THEN s3 \cup {image_filename} ELSE s3
        /\ image_url' = [image_url EXCEPT ![r] = IF uploaded THEN uploaded_url ELSE @]
        /\ pc' = [pc EXCEPT ![r] = n.pc]
        /\ reply' = [reply EXCEPT ![r] = n.reply]
    /\ UNCHANGED <<handler, input_ok, email, file, response, user_data, exc,
                   body_read>>

\* A variant that answers every 4xx and 5xx status of the POST with an error.
post_reply_checks_errors(o) ==
    IF o.raised THEN jsonify(Dict("error", "Failed connect to API"), 500)
    ELSE IF o.status = 409 THEN jsonify(Dict("error", "Email already exists"), 409)
    ELSE IF o.status >= 400 THEN jsonify(Dict("error", "Failed to create user"), o.status)
    ELSE redirect_index

\* After the create POST: only 409 is looked at.
post_reply(o) ==
    IF o.raised THEN jsonify(Dict("error", "Failed connect to API"), 500)
    ELSE IF o.status = 409 THEN jsonify(Dict("error", "Email already exists"), 409)
    ELSE redirect_index

add_user_post(r) ==
    /\ pc[r] = "add_user_post"
    /\ user_data' = [user_data EXCEPT
                        ![r] = [email |-> email[r], image_url |-> image_url[r]]]
    /\ \E o \in Outcomes :
        /\ Issue(r, "post", o)
        /\ pc' = [pc EXCEPT ![r] = "done"]
        /\ reply' = [reply EXCEPT ![r] = post_reply(o)]
    /\ UNCHANGED <<handler, input_ok, email, file, response, image_url, exc,
                   body_read, s3>>

\* ------------------------------------------------------- specifications
Next ==
    \/ \E r \in Reqs : Arrive(r)
    \/ \E r \in Reqs : index(r)
    \/ \E r \in Reqs : add_user_check(r)
    \/ \E r \in Reqs : add_user_upload(r)
    \/ \E r \in Reqs : add_user_post(r)
    \/ \E r \in Reqs : get_user(r)
    \/ \E r \in Reqs : update_user(r)
    \/ \E r \in Reqs : delete_user(r)

Spec == Init /\ [][Next]_vars

\* Concurrent create requests: every slot serves a POST /users whose form
\* is complete and carries a file.
ArriveCreate(r) == \E e \in Emails : Request(r, "add_user", TRUE, e, "file")

NextConc ==
    \/ \E r \in Reqs : ArriveCreate(r)
    \/ \E r \in Reqs : add_user_check(r)
    \/ \E r \in Reqs : add_user_upload(r)
    \/ \E r \in Reqs : add_user_post(r)

InitConc == InitFor(1 .. NumConc)

SpecConc == InitConc /\ [][NextConc]_vars

\* =================================================================== claims
Done(r) == pc[r] = "done"
\* The entries of calls[r] for one outbound call.
Issued(r, name) == {i \in DOMAIN calls[r] : calls[r][i].call = name}
\* The call was issued and a response with status st came back.
Answered(r, name, st) ==
    \E i \in Issued(r, name) : ~calls[r][i].raised /\ calls[r][i].status = st
\* The call was issued, a response came back, and its status was not 409.
AnsweredNot409(r, name) ==
    \E i \in Issued(r, name) : ~calls[r][i].raised /\ calls[r][i].status # 409
\* What a verbatim pass-through of an upstream body carries.
BodyValue(text) == IF IsJson(text) THEN json(text) ELSE text
Served(r, h) == handler[r] = h /\ Done(r)

\* C1: get_user answers every upstream response with exactly the upstream's
\* status code and body, and answers 500 "API unreachable" only when the
\* upstream call itself raised.
GetIsVerbatimPassThrough ==
    \A r \in Reqs : Served(r, "get_user") =>
        IF response[r].raised
        THEN reply[r] = jsonify(Dict("error", "API unreachable"), 500)
        ELSE /\ reply[r].status = response[r].status
             /\ reply[r].kind = "json"
             /\ reply[r].data = BodyValue(response[r].body)

\* C2: whatever an upstream call yields, no exception leaves a handler: a
\* request that issued an outbound call ends with a reply the handler made.
NoExceptionEscapesAfterUpstreamCall ==
    \A r \in Reqs : (Done(r) /\ calls[r] # <<>>) =>
        (exc[r] = "" /\ reply[r].kind # "exception")

\* C3: when add_user's pre-check returns 409, the request has ended with
\* 409 "Email already exists", and the pre-check is its only outbound call:
\* no upload and no POST, with or without a file.
PrecheckConflictShortCircuits ==
    \A r \in Reqs : (handler[r] = "add_user" /\ Answered(r, "check", 409)) =>
        /\ Done(r)
        /\ reply[r] = jsonify(Dict("error", "Email already exists"), 409)
        /\ Len(calls[r]) = 1
        /\ Issued(r, "upload") = {} /\ Issued(r, "post") = {}
        /\ user_data[r] = NoData

PrecheckConflictWithFile ==
    \E r \in Reqs : /\ handler[r] = "add_user" /\ file[r] = "file"
                    /\ Answered(r, "check", 409) /\ Done(r)

\* C4: when index's list call raises, or its body is not JSON, the page is
\* rendered with an empty user list, with status 200 and not 500.
IndexRendersEmptyOnFailure ==
    \A r \in Reqs :
        (Served(r, "index") /\ (response[r].raised \/ ~IsJson(response[r].body))) =>
            /\ reply[r] = render_template("list()")
            /\ reply[r].status # 500
            /\ exc[r] = ""

IndexBodyNotJson ==
    \E r \in Reqs : /\ Served(r, "index") /\ ~response[r].raised
                    /\ ~IsJson(response[r].body)

\* C5: when add_user's pre-check and its create POST both return a response
\* and neither status is 409, the reply is the redirect to the index route,
\* whatever the POST's status.
CreateRedirectsUnless409 ==
    \A r \in Reqs :
        (handler[r] = "add_user" /\ AnsweredNot409(r, "check")
            /\ AnsweredNot409(r, "post")) =>
            (Done(r) /\ reply[r] = redirect_index)

\* No image, pre-check 200, create 201: the reply is a redirect to "/".
CreateNoImage200Then201 ==
    \E r \in Reqs : /\ handler[r] = "add_user" /\ file[r] = "empty"
                    /\ Answered(r, "check", 200) /\ Answered(r, "post", 201)
                    /\ reply[r].kind = "redirect" /\ reply[r].data = "/"

\* C6: in every request each outbound call is issued at most once, and a
\* call that raised is the request's last outbound call.
CallsOnceAndFailureIsTerminal ==
    \A r \in Reqs : \A i, j \in DOMAIN calls[r] :
        i < j => (calls[r][i].call # calls[r][j].call /\ ~calls[r][i].raised)

UploadFailedAfterPrecheck ==
    \E r \in Reqs : /\ Done(r) /\ Len(calls[r]) = 2
                    /\ calls[r][2].call = "upload" /\ calls[r][2].raised

\* C7: update_user reports success only for an upstream 200; every other
\* upstream status s is answered "Failed to update user" with status s; a
\* PUT that raised is answered 500.
UpdatedValues == {"dict(message=User updated, data=" \o json(b) \o ")" :
                    b \in {t \in UpBodies : IsJson(t)}}
UpdateSucceedsOnlyOn200 ==
    \A r \in Reqs : (Served(r, "update_user") /\ calls[r] # <<>>) =>
        /\ (reply[r].kind = "json" /\ reply[r].data \in UpdatedValues) =>
              (~response[r].raised /\ response[r].status = 200)
        /\ (~response[r].raised /\ response[r].status # 200) =>
              reply[r] = jsonify(Dict("error", "Failed to update user"),
                                 response[r].status)
        /\ response[r].raised => reply[r].status = 500

UpdateAnswered201 ==
    \E r \in Reqs : /\ Served(r, "update_user") /\ Answered(r, "put", 201)
                    /\ reply[r].status = 201

\* C8: when the upstream DELETE returns 204, delete_user answers 200 "User
\* deleted successfully" whatever the body, and does not read the body.
Delete204Answers200 ==
    \A r \in Reqs : (Served(r, "delete_user") /\ Answered(r, "delete", 204)) =>
        /\ reply[r] = jsonify(Dict("message", "User deleted successfully"), 200)
        /\ ~body_read[r]

Delete204BodyNotJson ==
    \E r \in Reqs : /\ Served(r, "delete_user") /\ Answered(r, "delete", 204)
                    /\ ~IsJson(response[r].body)

\* C9: a create request whose form fields are there and that provides no
\* file is not rejected for the absent file: it makes no upload, it goes on
\* to the create POST once the pre-check passed, and the image_url it POSTs
\* is the empty string.
NoFileStillCreates ==
    \A r \in Reqs :
        (Served(r, "add_user") /\ input_ok[r] /\ file[r] # "file") =>
            /\ exc[r] = ""
            /\ Issued(r, "upload") = {}
            /\ AnsweredNot409(r, "check") => Issued(r, "post") # {}
            /\ Issued(r, "post") # {} => user_data[r].image_url = ""

\* C10: the gateway does not serialize create requests: whatever the other
\* requests are doing, also for the same email, a create request at its
\* start can pass its pre-check, one past its pre-check can upload, and one
\* past its upload can POST.
InWindow(q) == pc[q] \in {"add_user_upload", "add_user_post"}
CreatesAreNotSerialized ==
    \A r \in Reqs :
        /\ pc[r] = "add_user" =>
              ENABLED (add_user_check(r) /\ pc'[r] = "add_user_upload")
        /\ pc[r] = "add_user_upload" =>
              ENABLED (add_user_upload(r) /\ pc'[r] = "add_user_post")
        /\ pc[r] = "add_user_post" => ENABLED add_user_post(r)

\* Two requests for one email, both past a pre-check that was not 409, both
\* with their file uploaded, both about to POST.
TwoCreatesSameEmailInFlight ==
    \E r, q \in Reqs :
        /\ r # q /\ email[r] = email[q]
        /\ pc[r] = "add_user_post" /\ pc[q] = "add_user_post"
        /\ AnsweredNot409(r, "check") /\ AnsweredNot409(q, "check")
        /\ Issued(r, "upload") # {} /\ Issued(q, "upload") # {}
====
